---- MODULE Spec2Model ----
(***************************************************************************)
(* Model of AdvNetworkingBenchDocaRxOp (doca_bench_op_rx.h): the receive   *)
(* operator that aggregates packet payload pointers into per-slot host     *)
(* pointer tables, launches one reorder kernel per full table and tracks   *)
(* the launched batches in a FIFO (batch_q_) that free_batch_queue drains  *)
(* by polling each batch's CUDA event.                                     *)
(*                                                                         *)
(* compute() is modelled step by step (entry, one step per iteration of    *)
(* the packet loop, exit) because the GPU runs concurrently with it: an    *)
(* event can complete between any two iterations, which is what the second *)
(* free_batch_queue() call inside the loop is there for.                   *)
(***************************************************************************)
EXTENDS Integers, Sequences, FiniteSets, TLC

(* ------------------------------ bounds -------------------------------- *)
MaxBatch == 2        \* largest configured batch_size
MaxBurst == 5        \* largest number of packets in one burst
MaxPkts  == 7        \* data packets delivered over the operator's lifetime
MaxQId   == 1        \* queue ids 0 (other traffic) .. MaxQId (data)

(* -------------------------- program constants ------------------------- *)
num_concurrent   == 4       \* static constexpr int num_concurrent
header_size_     == 42      \* "header_size" parameter default
max_packet_size_ == 9100    \* "max_packet_size" parameter default

Slots == 0 .. (num_concurrent - 1)

cudaSuccess       == "cudaSuccess"
cudaErrorNotReady == "cudaErrorNotReady"
cudaErrorLaunch   == "cudaErrorLaunchFailure"

VARIABLES
  DEBUG_CUDA_TIMES,  \* the build's value of the macro (0 when not defined)
  batch_size_,       \* Parameter<uint32_t> batch_size_
  batch_q_,          \* std::queue<BatchAggregationParams>
  cur_batch_,        \* BatchAggregationParams under construction
  cur_batch_idx_,    \* active slot
  aggr_pkts_recv_,   \* pointers written into the active slot's table
  ttl_pkts_recv_,    \* lifetime packet total
  ttl_bytes_recv_,   \* lifetime byte total
  h_dev_ptrs_,       \* per slot host pointer table
  events_,           \* per slot: what cudaEventQuery(events_[n]) answers now
  pc,                \* "idle" (between compute calls), "loop", "exited"
  burst,             \* the burst compute() is working on
  pkt_idx,           \* loop variable of compute()
  launches,          \* history: one entry per simple_packet_reorder launch
  pending_from,      \* history: the bursts (by first packet) whose pointers
                     \* are pending in the active slot's table
  q_from,            \* history: for each batch of batch_q_, the bursts whose
                     \* pointers its table was launched with
  log_,              \* history: the set of HOLOSCAN_LOG_ERROR messages emitted
  step               \* history: the last step taken, the slots whose table
                     \* it wrote to, the queue id of the burst it received,
                     \* whether its free_batch_queue() removed a batch

vars == << DEBUG_CUDA_TIMES, pending_from, q_from, batch_size_, batch_q_,
           cur_batch_, cur_batch_idx_, aggr_pkts_recv_,
           ttl_pkts_recv_, ttl_bytes_recv_, h_dev_ptrs_, events_, pc, burst,
           pkt_idx, launches, log_, step >>

(* ------------------------------ helpers ------------------------------- *)

\* Address of the k-th data packet delivered (k = 1, 2, ...): packets sit
\* max_packet_size_ bytes apart in the NIC's buffer.
PktAddr(k) == k * max_packet_size_

\* adv_net_get_pkt_ptr(burst, idx)
adv_net_get_pkt_ptr(b, idx) == PktAddr(b.first + idx)

\* A store that takes the burst's first packet whatever the loop index is.
PayloadPtrFirst(b, idx) == adv_net_get_pkt_ptr(b, 0) + header_size_

\* The value stored for packet idx of the burst: packet pointer + header.
PayloadPtr(b, idx) == adv_net_get_pkt_ptr(b, idx) + header_size_

\* cudaEventQuery(evt) for the event of slot evt.
cudaEventQuery(ev, evt) == ev[evt]

\* A reclaim with an if in place of the while: at most one batch is popped.
free_batch_queue_once(q, ev) ==
  IF Len(q) > 0
    THEN IF cudaEventQuery(ev, Head(q).evt) = cudaSuccess
           THEN Tail(q)
           ELSE q
    ELSE q

\* A reclaim whose test is inverted: it pops while the event is not complete.
RECURSIVE free_batch_queue_inverted(_, _)
free_batch_queue_inverted(q, ev) ==
  IF Len(q) > 0
    THEN IF cudaEventQuery(ev, Head(q).evt) # cudaSuccess
           THEN free_batch_queue_inverted(Tail(q), ev)
           ELSE q
    ELSE q

\* A reclaim that drops every batch whose event is complete, wherever it
\* sits in the queue.
free_batch_queue_any(q, ev) ==
  SelectSeq(q, LAMBDA r : cudaEventQuery(ev, r.evt) # cudaSuccess)

\* free_batch_queue(): pop while the head's event reports cudaSuccess.
RECURSIVE free_batch_queue(_, _)
free_batch_queue(q, ev) ==
  IF Len(q) > 0
    THEN IF cudaEventQuery(ev, Head(q).evt) = cudaSuccess
           THEN free_batch_queue(Tail(q), ev)
           ELSE q
    ELSE q

\* A queue test that lets queue 0 through.
IgnoredQueueNone(q_id) == q_id < 0

\* if (adv_net_get_q_id(burst) == 0) return;
IgnoredQueue(q_id) == q_id = 0

\* A total that counts bursts instead of packets.
CountPktsAsBursts(ttl, b) == ttl + 1

\* ttl_pkts_recv_ += adv_net_get_num_pkts(burst)
CountPkts(ttl, b) == ttl + b.num_pkts

\* ttl_bytes_recv_ += adv_net_get_burst_tot_byte(burst)
CountBytes(ttl, b) == ttl + b.tot_byte

\* A threshold test that is one packet early.
BatchFullEarly(aggr, bs) == aggr + 1 >= bs

\* A threshold test that is one packet late: > instead of >=.
BatchFullLate(aggr, bs) == aggr > bs

\* if (aggr_pkts_recv_ >= batch_size_.get())
BatchFull(aggr, bs) == aggr >= bs

\* A check that lets one more batch through: > instead of ==.
FellBehindLate(q) == Len(q) > num_concurrent

\* if (batch_q_.size() == num_concurrent)
FellBehind(q) == Len(q) = num_concurrent

\* An error check that never fires.
DeviceFaultIgnored(err) == FALSE

\* if (cudaGetLastError() != cudaSuccess)
DeviceFault(err) == err # cudaSuccess

\* An advance that uses the value before the increment.
NextBatchIdxStuck(i) == i % num_concurrent

\* cur_batch_idx_ = (++cur_batch_idx_ % num_concurrent)
NextBatchIdx(i) == (i + 1) % num_concurrent

\* #if DEBUG_CUDA_TIMES == 1: cudaEventRecord(events_[cur_batch_idx_], ...)
EventRecorded(dbg) == dbg = 1

\* #if DEBUG_CUDA_TIMES == 1: cudaEventSynchronize(events_[cur_batch_idx_])
EventWaited(dbg) == dbg = 1

\* h_dev_ptrs_[slot][idx] = p.  The table of a slot has batch_size_ entries.
StorePtr(tabs, slot, idx, p) ==
  [tabs EXCEPT ![slot] = [j \in (DOMAIN @) \cup {idx} |->
                             IF j = idx THEN p ELSE @[j]]]

\* The last n elements of a sequence: the history kept for the n batches
\* that are in batch_q_.
LastN(h, n) == SubSeq(h, Len(h) - n + 1, Len(h))

\* The burst variable of compute() outside a call.
NoBurst == [q_id |-> 0, num_pkts |-> 0, tot_byte |-> 0, first |-> 0]

\* The bursts the NIC side can deliver next: any queue id, any packet count.
\* first is the arrival number of the burst's first packet among the packets
\* of the data queues.
Bursts ==
  { [q_id |-> q, num_pkts |-> n, tot_byte |-> n * max_packet_size_,
     first |-> ttl_pkts_recv_ + 1] : q \in 0 .. MaxQId, n \in 0 .. MaxBurst }

MsgNoBurst    == "No burst input"
MsgFellBehind == "Fell behind in processing on GPU!"
MsgCudaError  == "CUDA error with {} packets in batch and {} bytes total"

(* ------------------------------- Init --------------------------------- *)

Init ==
  /\ DEBUG_CUDA_TIMES \in {0, 1}
  /\ pending_from = {}
  /\ q_from = << >>
  /\ batch_size_ \in 1 .. MaxBatch
  /\ batch_q_ = << >>
  /\ cur_batch_ = [bursts |-> << >>, num_bursts |-> 0, evt |-> -1]
  /\ cur_batch_idx_ = 0
  /\ aggr_pkts_recv_ = 0
  /\ ttl_pkts_recv_ = 0
  /\ ttl_bytes_recv_ = 0
  /\ h_dev_ptrs_ = [n \in Slots |-> [j \in 0 .. (batch_size_ - 1) |-> 0]]
  /\ events_ = [n \in Slots |-> cudaSuccess]
  /\ pc = "idle"
  /\ burst = NoBurst
  /\ pkt_idx = 0
  /\ launches = << >>
  /\ log_ = {}
  /\ step = [op |-> "init", wrote |-> {}, recv |-> {}, freed |-> FALSE]

(* ------------------------- compute(): entry --------------------------- *)

\* A missing-burst path that also throws the pending pointers away.
ComputeNoBurstReset ==
  /\ pc = "idle"
  /\ batch_q_' = free_batch_queue(batch_q_, events_)
  /\ q_from' = LastN(q_from, Len(batch_q_'))
  /\ aggr_pkts_recv_' = 0
  /\ log_' = log_ \cup {MsgNoBurst}
  /\ step' = [op |-> "no_burst", wrote |-> {}, recv |-> {},
              freed |-> Len(free_batch_queue(batch_q_, events_)) < Len(batch_q_)]
  /\ pending_from' = pending_from
  /\ UNCHANGED << DEBUG_CUDA_TIMES, batch_size_, cur_batch_, cur_batch_idx_,
                  ttl_pkts_recv_, ttl_bytes_recv_, h_dev_ptrs_, events_, pc,
                  burst, pkt_idx, launches >>

\* free_batch_queue(); receive() yields nothing: log and return.
ComputeNoBurst ==
  /\ pc = "idle"
  /\ batch_q_' = free_batch_queue(batch_q_, events_)
  /\ q_from' = LastN(q_from, Len(batch_q_'))
  /\ log_' = log_ \cup {MsgNoBurst}
  /\ step' = [op |-> "no_burst", wrote |-> {}, recv |-> {},
              freed |-> Len(free_batch_queue(batch_q_, events_)) < Len(batch_q_)]
  /\ pending_from' = pending_from
  /\ UNCHANGED << DEBUG_CUDA_TIMES, batch_size_, cur_batch_, cur_batch_idx_, aggr_pkts_recv_,
                  ttl_pkts_recv_, ttl_bytes_recv_, h_dev_ptrs_, events_, pc,
                  burst, pkt_idx, launches >>

\* free_batch_queue(); the burst is on queue 0: return.
ComputeIgnored(b) ==
  /\ pc = "idle"
  /\ IgnoredQueue(b.q_id)
  /\ batch_q_' = free_batch_queue(batch_q_, events_)
  /\ q_from' = LastN(q_from, Len(batch_q_'))
  /\ step' = [op |-> "ignored", wrote |-> {}, recv |-> {b.q_id},
              freed |-> Len(free_batch_queue(batch_q_, events_)) < Len(batch_q_)]
  /\ pending_from' = pending_from
  /\ UNCHANGED << DEBUG_CUDA_TIMES, batch_size_, cur_batch_, cur_batch_idx_, aggr_pkts_recv_,
                  ttl_pkts_recv_, ttl_bytes_recv_, h_dev_ptrs_, events_, pc,
                  burst, pkt_idx, launches, log_ >>

\* free_batch_queue(); the burst is on a data queue: count its packets and
\* enter the packet loop.
ComputeData(b) ==
  /\ pc = "idle"
  /\ ~ IgnoredQueue(b.q_id)
  /\ ttl_pkts_recv_ + b.num_pkts <= MaxPkts
  /\ batch_q_' = free_batch_queue(batch_q_, events_)
  /\ q_from' = LastN(q_from, Len(batch_q_'))
  /\ burst' = b
  /\ ttl_pkts_recv_' = CountPkts(ttl_pkts_recv_, b)
  /\ pkt_idx' = 0
  /\ pc' = "loop"
  /\ step' = [op |-> "data", wrote |-> {}, recv |-> {b.q_id},
              freed |-> Len(free_batch_queue(batch_q_, events_)) < Len(batch_q_)]
  /\ pending_from' = pending_from
  /\ UNCHANGED << DEBUG_CUDA_TIMES, batch_size_, cur_batch_, cur_batch_idx_, aggr_pkts_recv_,
                  ttl_bytes_recv_, h_dev_ptrs_, events_, launches, log_ >>

(* ---------------------- compute(): packet loop ------------------------ *)

\* Loop iteration, table not full: store the packet's payload pointer.
StorePacket ==
  /\ pc = "loop"
  /\ pkt_idx < burst.num_pkts
  /\ ~ BatchFull(aggr_pkts_recv_, batch_size_)
  /\ h_dev_ptrs_' = StorePtr(h_dev_ptrs_, cur_batch_idx_, aggr_pkts_recv_,
                             PayloadPtr(burst, pkt_idx))
  /\ aggr_pkts_recv_' = aggr_pkts_recv_ + 1
  /\ pending_from' = pending_from \cup {burst.first}
  /\ pkt_idx' = pkt_idx + 1
  /\ step' = [op |-> "store", wrote |-> {cur_batch_idx_}, recv |-> {}, freed |-> FALSE]
  /\ q_from' = q_from
  /\ UNCHANGED << DEBUG_CUDA_TIMES, batch_size_, batch_q_, cur_batch_, cur_batch_idx_,
                  ttl_pkts_recv_, ttl_bytes_recv_, events_, pc, burst,
                  launches, log_ >>

\* A saturation test on batch_q_ as it was, without free_batch_queue().
FellBehindReturnStale ==
  /\ pc = "loop"
  /\ pkt_idx < burst.num_pkts
  /\ BatchFull(aggr_pkts_recv_, batch_size_)
  /\ FellBehind(batch_q_)
  /\ batch_q_' = batch_q_
  /\ q_from' = q_from
  /\ aggr_pkts_recv_' = 0
  /\ pending_from' = {}
  /\ log_' = log_ \cup {MsgFellBehind}
  /\ pc' = "idle"
  /\ burst' = NoBurst
  /\ pkt_idx' = 0
  /\ step' = [op |-> "fell_behind", wrote |-> {}, recv |-> {}, freed |-> FALSE]
  /\ UNCHANGED << DEBUG_CUDA_TIMES, batch_size_, cur_batch_, cur_batch_idx_,
                  ttl_pkts_recv_, ttl_bytes_recv_, h_dev_ptrs_, events_,
                  launches >>

\* Loop iteration, table full, batch_q_ still holds num_concurrent batches
\* after free_batch_queue(): log and return from compute().
FellBehindReturn ==
  /\ pc = "loop"
  /\ pkt_idx < burst.num_pkts
  /\ BatchFull(aggr_pkts_recv_, batch_size_)
  /\ LET q == free_batch_queue(batch_q_, events_) IN
       /\ FellBehind(q)
       /\ batch_q_' = q
       /\ q_from' = LastN(q_from, Len(q))
  /\ aggr_pkts_recv_' = 0
  /\ pending_from' = {}
  /\ log_' = log_ \cup {MsgFellBehind}
  /\ pc' = "idle"
  /\ burst' = NoBurst
  /\ pkt_idx' = 0
  /\ step' = [op |-> "fell_behind", wrote |-> {}, recv |-> {},
              freed |-> Len(free_batch_queue(batch_q_, events_)) < Len(batch_q_)]
  /\ UNCHANGED << DEBUG_CUDA_TIMES, batch_size_, cur_batch_, cur_batch_idx_, ttl_pkts_recv_,
                  ttl_bytes_recv_, h_dev_ptrs_, events_, launches >>

\* A launch that keeps the current burst in the batch it pushes.
LaunchRetaining(q, err, ans) ==
  /\ EventWaited(DEBUG_CUDA_TIMES) => ans = cudaSuccess
  /\ launches' = Append(launches,
                        [slot |-> cur_batch_idx_,
                         table |-> h_dev_ptrs_[cur_batch_idx_],
                         count |-> batch_size_,
                         err |-> err,
                         recorded |-> EventRecorded(DEBUG_CUDA_TIMES),
                         waited |-> EventWaited(DEBUG_CUDA_TIMES)])
  /\ batch_q_' = Append(q, [cur_batch_ EXCEPT !.evt = cur_batch_idx_,
                                              !.bursts = << burst.first >>,
                                              !.num_bursts = 1])
  /\ cur_batch_' = [cur_batch_ EXCEPT !.evt = cur_batch_idx_,
                                      !.num_bursts = 0]
  /\ events_' = [events_ EXCEPT ![cur_batch_idx_] = ans]
  /\ q_from' = LastN(Append(q_from, pending_from), Len(q) + 1)

\* The launch of the active slot: simple_packet_reorder on the slot's table,
\* cur_batch_.evt = events_[cur_batch_idx_], batch_q_.push(cur_batch_),
\* cur_batch_.num_bursts = 0.  q is batch_q_ after free_batch_queue(), err is
\* what cudaGetLastError() reports after the launch, ans is what the runtime
\* answers to a query of the slot's event from now on.  The source records
\* the event only inside #if DEBUG_CUDA_TIMES == 1 (and then waits for it);
\* the answer of cudaEventQuery belongs to the CUDA runtime either way, so it
\* is an input here: complete at once, or not ready until EventComplete.
\* Nothing in the source adds a burst to cur_batch_, so num_bursts stays 0.
\* In a DEBUG_CUDA_TIMES build the launch has waited for the event
\* (cudaEventSynchronize), so its answer is cudaSuccess.
Launch(q, err, ans) ==
  /\ EventWaited(DEBUG_CUDA_TIMES) => ans = cudaSuccess
  /\ launches' = Append(launches,
                        [slot |-> cur_batch_idx_,
                         table |-> h_dev_ptrs_[cur_batch_idx_],
                         count |-> batch_size_,
                         err |-> err,
                         recorded |-> EventRecorded(DEBUG_CUDA_TIMES),
                         waited |-> EventWaited(DEBUG_CUDA_TIMES)])
  /\ batch_q_' = Append(q, [cur_batch_ EXCEPT !.evt = cur_batch_idx_])
  /\ cur_batch_' = [cur_batch_ EXCEPT !.evt = cur_batch_idx_,
                                      !.num_bursts = 0]
  /\ events_' = [events_ EXCEPT ![cur_batch_idx_] = ans]
  /\ q_from' = LastN(Append(q_from, pending_from), Len(q) + 1)

\* Loop iteration, table full, room in batch_q_: launch; the device reports
\* an error: log and exit(1).
LaunchFault(err, ans) ==
  /\ pc = "loop"
  /\ pkt_idx < burst.num_pkts
  /\ BatchFull(aggr_pkts_recv_, batch_size_)
  /\ LET q == free_batch_queue(batch_q_, events_) IN
       /\ ~ FellBehind(q)
       /\ Launch(q, err, ans)
  /\ DeviceFault(err)
  /\ aggr_pkts_recv_' = 0
  /\ pending_from' = {}
  /\ log_' = log_ \cup {MsgCudaError}
  /\ pc' = "exited"
  /\ step' = [op |-> "exit", wrote |-> {}, recv |-> {},
              freed |-> Len(free_batch_queue(batch_q_, events_)) < Len(batch_q_)]
  /\ UNCHANGED << DEBUG_CUDA_TIMES, batch_size_, cur_batch_idx_, ttl_pkts_recv_,
                  ttl_bytes_recv_, h_dev_ptrs_, burst, pkt_idx >>

\* Loop iteration, table full, room in batch_q_: launch, move to the next
\* slot and store the packet's payload pointer there.
LaunchStore(err, ans) ==
  /\ pc = "loop"
  /\ pkt_idx < burst.num_pkts
  /\ BatchFull(aggr_pkts_recv_, batch_size_)
  /\ LET q == free_batch_queue(batch_q_, events_) IN
       /\ ~ FellBehind(q)
       /\ Launch(q, err, ans)
  /\ ~ DeviceFault(err)
  /\ cur_batch_idx_' = NextBatchIdx(cur_batch_idx_)
  /\ h_dev_ptrs_' = StorePtr(h_dev_ptrs_, cur_batch_idx_', 0,
                             PayloadPtr(burst, pkt_idx))
  /\ aggr_pkts_recv_' = 0 + 1
  /\ pending_from' = {burst.first}
  /\ pkt_idx' = pkt_idx + 1
  /\ step' = [op |-> "launch", wrote |-> {cur_batch_idx_'}, recv |-> {},
              freed |-> Len(free_batch_queue(batch_q_, events_)) < Len(batch_q_)]
  /\ UNCHANGED << DEBUG_CUDA_TIMES, batch_size_, ttl_pkts_recv_, ttl_bytes_recv_, pc, burst,
                  log_ >>

\* The loop is over: count the burst's bytes and return.
ComputeReturn ==
  /\ pc = "loop"
  /\ pkt_idx >= burst.num_pkts
  /\ ttl_bytes_recv_' = CountBytes(ttl_bytes_recv_, burst)
  /\ pc' = "idle"
  /\ burst' = NoBurst
  /\ pkt_idx' = 0
  /\ step' = [op |-> "return", wrote |-> {}, recv |-> {}, freed |-> FALSE]
  /\ q_from' = q_from
  /\ pending_from' = pending_from
  /\ UNCHANGED << DEBUG_CUDA_TIMES, batch_size_, batch_q_, cur_batch_, cur_batch_idx_,
                  aggr_pkts_recv_, ttl_pkts_recv_, h_dev_ptrs_, events_,
                  launches, log_ >>

(* ----------------------------- the device ----------------------------- *)

\* The work the event of slot n waits for completes.
EventComplete(n) ==
  /\ pc # "exited"
  /\ events_[n] = cudaErrorNotReady
  /\ events_' = [events_ EXCEPT ![n] = cudaSuccess]
  /\ step' = [op |-> "event", wrote |-> {}, recv |-> {}, freed |-> FALSE]
  /\ q_from' = q_from
  /\ pending_from' = pending_from
  /\ UNCHANGED << DEBUG_CUDA_TIMES, batch_size_, batch_q_, cur_batch_, cur_batch_idx_,
                  aggr_pkts_recv_, ttl_pkts_recv_, ttl_bytes_recv_,
                  h_dev_ptrs_, pc, burst, pkt_idx, launches, log_ >>

LastErrors == {cudaSuccess, cudaErrorLaunch}
QueryAnswers == {cudaSuccess, cudaErrorNotReady}

Next ==
  \/ ComputeNoBurst
  \/ \E b \in Bursts : ComputeIgnored(b)
  \/ \E b \in Bursts : ComputeData(b)
  \/ StorePacket
  \/ FellBehindReturn
  \/ \E err \in LastErrors, ans \in QueryAnswers : LaunchFault(err, ans)
  \/ \E err \in LastErrors, ans \in QueryAnswers : LaunchStore(err, ans)
  \/ ComputeReturn
  \/ \E n \in Slots : EventComplete(n)

Spec == Init /\ [][Next]_vars

\* The operator configured with any batch_size the parameter's type allows
\* from 0 up: nothing validates "batch_size", and initialize() then
\* allocates tables of batch_size_ entries.
InitAnyBatch ==
  /\ DEBUG_CUDA_TIMES \in {0, 1}
  /\ pending_from = {}
  /\ q_from = << >>
  /\ batch_size_ \in 0 .. MaxBatch
  /\ batch_q_ = << >>
  /\ cur_batch_ = [bursts |-> << >>, num_bursts |-> 0, evt |-> -1]
  /\ cur_batch_idx_ = 0
  /\ aggr_pkts_recv_ = 0
  /\ ttl_pkts_recv_ = 0
  /\ ttl_bytes_recv_ = 0
  /\ h_dev_ptrs_ = [n \in Slots |-> [j \in 0 .. (batch_size_ - 1) |-> 0]]
  /\ events_ = [n \in Slots |-> cudaSuccess]
  /\ pc = "idle"
  /\ burst = NoBurst
  /\ pkt_idx = 0
  /\ launches = << >>
  /\ log_ = {}
  /\ step = [op |-> "init", wrote |-> {}, recv |-> {}, freed |-> FALSE]

SpecAnyBatch == InitAnyBatch /\ [][Next]_vars

\* The steps of compute(), as opposed to those of the device.
ComputeStep ==
  \/ ComputeNoBurst
  \/ \E b \in Bursts : ComputeIgnored(b)
  \/ \E b \in Bursts : ComputeData(b)
  \/ StorePacket
  \/ FellBehindReturn
  \/ \E err \in LastErrors, ans \in QueryAnswers : LaunchFault(err, ans)
  \/ \E err \in LastErrors, ans \in QueryAnswers : LaunchStore(err, ans)
  \/ ComputeReturn

\* The scheduler keeps calling compute() and lets each call run to its
\* end; the work every event waits for completes in the end.
FairSpec ==
  /\ Spec
  /\ WF_vars(ComputeStep)
  /\ \A n \in Slots : WF_vars(EventComplete(n))

(* --------------------------- shorthands ------------------------------- *)

\* The slots that have a batch in batch_q_.
InFlight == { batch_q_[k].evt : k \in 1 .. Len(batch_q_) }

\* A step of compute() (not of the device) is being taken.
ProgramStep == step'.op # "event"

\* Saturation has been reported at some point.
Saturated == MsgFellBehind \in log_

TypeOK ==
  /\ batch_size_ \in 1 .. MaxBatch
  /\ Len(batch_q_) \in 0 .. (num_concurrent + 1)
  /\ cur_batch_idx_ \in Slots
  /\ aggr_pkts_recv_ \in 0 .. batch_size_
  /\ pc \in {"idle", "loop", "exited"}

(* ------------------------------ claims -------------------------------- *)

\* C1: batch_q_ never holds more than num_concurrent batches, and a loop
\* iteration that finds the active table full while num_concurrent batches
\* remain in batch_q_ after free_batch_queue() reports it, launches nothing
\* and pushes nothing onto batch_q_.
C1_AtMostNInFlight ==
  /\ [](Len(batch_q_) <= num_concurrent)
  /\ [][ ( /\ ProgramStep
           /\ pc = "loop"
           /\ pkt_idx < burst.num_pkts
           /\ aggr_pkts_recv_ >= batch_size_
           /\ Len(free_batch_queue(batch_q_, events_)) = num_concurrent )
         => ( /\ MsgFellBehind \in log_'
              /\ launches' = launches
              /\ batch_q_' = free_batch_queue(batch_q_, events_) ) ]_vars

\* C1 witness: saturation has just been reported with num_concurrent
\* batches in flight.
C1_Witness ==
  /\ step.op = "fell_behind"
  /\ Len(batch_q_) = num_concurrent
  /\ Len(launches) = num_concurrent

\* C2: no step writes into the pointer table of a slot that has a batch in
\* batch_q_.
C2_NoWriteWhileInFlight == step.wrote \cap InFlight = {}

\* C2 failing input, batch_size 1: one burst of 5 data packets, the event of
\* slot 0 not complete: the 5th packet is stored into slot 0 while the batch
\* launched from slot 0 is still the head of batch_q_ and still running.
C2_Failure ==
  /\ step.op = "launch"
  /\ step.wrote = {0}
  /\ Len(batch_q_) = num_concurrent
  /\ Head(batch_q_).evt = 0
  /\ events_[0] = cudaErrorNotReady

Ceil(a, b) == (a + b - 1) \div b

\* C3 as stated: between compute() calls and without saturation, the number
\* of launches is ceil(P / B) for the P data packets delivered.
C3_LaunchesCeil ==
  (pc = "idle" /\ ~ Saturated)
    => Len(launches) = Ceil(ttl_pkts_recv_, batch_size_)

\* C3 amended: between compute() calls and without saturation, the number
\* of launches is ceil(P / B) - 1 for P >= 1 data packets delivered and 0
\* for P = 0: the last batch, full or not, is not launched before the next
\* data packet arrives.
C3_LaunchesCeilMinusOne ==
  (pc = "idle" /\ ~ Saturated)
    => Len(launches) = IF ttl_pkts_recv_ = 0
                         THEN 0
                         ELSE Ceil(ttl_pkts_recv_, batch_size_) - 1

\* C3 witness: 5 packets in batches of 2 give 2 launches, and 4 packets in
\* batches of 2 give 1 (seen in two states; this one is the first).
C3_Witness ==
  /\ pc = "idle"
  /\ ~ Saturated
  /\ batch_size_ = 2
  /\ ttl_pkts_recv_ = 5
  /\ Len(launches) = 2

\* The payload pointer of the k-th data packet delivered.
ArrivalPtr(k) == k * max_packet_size_ + header_size_

\* C4: without saturation, the table handed to the k-th launch has exactly
\* batch_size_ entries and entry j is the payload pointer of data packet
\* (k-1)*B + j + 1, whatever the bursts the packets came in.
C4_LaunchedTableInArrivalOrder ==
  ~ Saturated =>
    \A k \in 1 .. Len(launches) :
      /\ launches[k].count = batch_size_
      /\ DOMAIN launches[k].table = 0 .. (batch_size_ - 1)
      /\ \A j \in 0 .. (batch_size_ - 1) :
           launches[k].table[j] = ArrivalPtr((k - 1) * batch_size_ + j + 1)

\* C4 witness: the second batch of 2 is launched by the 5th packet, which is
\* the second packet of its burst (first = 4): the batch holds packet 3 of
\* an earlier burst and packet 4 of a later one.
C4_Witness ==
  /\ step.op = "launch"
  /\ ~ Saturated
  /\ batch_size_ = 2
  /\ Len(launches) = 2
  /\ burst.first = 4
  /\ pkt_idx = 2

\* C5: a compute() call that receives a burst of queue 0 changes no pointer
\* table, launches nothing and leaves the active slot, the pending count and
\* both totals alone; batch_q_ becomes what free_batch_queue() makes of it.
C5_QueueZeroIgnored ==
  [][ (0 \in step'.recv)
      => ( /\ UNCHANGED << h_dev_ptrs_, launches, cur_batch_idx_,
                           aggr_pkts_recv_, ttl_pkts_recv_, ttl_bytes_recv_,
                           cur_batch_, events_, batch_size_, log_ >>
           /\ pc' = "idle"
           /\ batch_q_' = free_batch_queue(batch_q_, events_) ) ]_vars

\* C5 witness: a queue 0 burst was received while a table was partly
\* filled, and the reclaim at the start of the call emptied batch_q_.
C5_Witness ==
  /\ step.recv = {0}
  /\ aggr_pkts_recv_ > 0
  /\ Len(launches) >= 2
  /\ batch_q_ = << >>

\* C6: the j-th launch (j = 0, 1, ...) uses slot j mod num_concurrent, and
\* in a running process the active slot is the number of launches mod
\* num_concurrent: it moves by one with each launch and never otherwise.
C6_RoundRobin ==
  /\ \A j \in 1 .. Len(launches) :
       launches[j].slot = (j - 1) % num_concurrent
  /\ pc # "exited" => cur_batch_idx_ = Len(launches) % num_concurrent

\* C6 witness: the launches have wrapped around to slot 0 and a reclaim
\* took some of them out of batch_q_ in between.
C6_Witness ==
  /\ Len(launches) = num_concurrent + 1
  /\ launches[num_concurrent + 1].slot = 0
  /\ Len(batch_q_) = 2
  /\ cur_batch_idx_ = 1

\* C7 as stated: once saturation has been reported, no later step stores a
\* packet pointer, launches a batch or changes the totals.
C7_HaltAfterSaturation ==
  [][ Saturated
      => UNCHANGED << h_dev_ptrs_, launches, ttl_pkts_recv_,
                      ttl_bytes_recv_ >> ]_vars

\* C8: the free_batch_queue() call at the start of compute() (the only
\* thing done to batch_q_ by the steps named here) leaves batch_q_ as it is
\* when batch_q_ is empty or the event of its head is not complete, and a
\* second free_batch_queue() on its result, with the events unchanged,
\* removes nothing more.
C8_ReclaimNoOpAndIdempotent ==
  [][ (step'.op \in {"no_burst", "ignored", "data"})
      => ( /\ ( \/ batch_q_ = << >>
                \/ events_[Head(batch_q_).evt] # cudaSuccess )
              => batch_q_' = batch_q_
           /\ events_' = events_
           /\ free_batch_queue(batch_q_', events_') = batch_q_' ) ]_vars

\* C8 witness: a compute() call that only reclaimed found the head's event not complete
\* while the event of the batch behind it was, and left both in batch_q_.
C8_Witness ==
  /\ step.op = "no_burst"
  /\ Len(batch_q_) >= 2
  /\ events_[batch_q_[1].evt] = cudaErrorNotReady
  /\ events_[batch_q_[2].evt] = cudaSuccess

\* C9: between compute() calls and without saturation, the lifetime packet
\* total is batch_size_ times the number of launches plus the pending count
\* of the active slot.
C9_TotalIsLaunchedPlusPending ==
  (pc = "idle" /\ ~ Saturated)
    => ttl_pkts_recv_ = batch_size_ * Len(launches) + aggr_pkts_recv_

\* C9 witness: batch size 2, a first burst of 5 data packets: 2 launches,
\* 1 pointer pending, packet total 5.
C9_Witness ==
  /\ step.op = "return"
  /\ batch_size_ = 2
  /\ ttl_pkts_recv_ = 5
  /\ ttl_bytes_recv_ = 5 * max_packet_size_
  /\ Len(launches) = 2
  /\ aggr_pkts_recv_ = 1
  /\ h_dev_ptrs_[2][0] = ArrivalPtr(5)

\* C10: a launch after which the device reports an error ends the process
\* in the same step, before the packet is stored and before the active slot
\* moves; nothing is stored, launched or advanced afterwards; and every
\* launch the process survived is one whose check reported no error.
C10_DeviceFaultTerminates ==
  /\ [][ ( /\ Len(launches') = Len(launches) + 1
           /\ launches'[Len(launches')].err # cudaSuccess )
         => ( /\ pc' = "exited"
              /\ UNCHANGED << h_dev_ptrs_, cur_batch_idx_, pkt_idx >> ) ]_vars
  /\ [][ pc = "exited"
         => UNCHANGED << h_dev_ptrs_, launches, cur_batch_idx_, pc >> ]_vars
  /\ [](pc # "exited"
          => \A k \in 1 .. Len(launches) : launches[k].err = cudaSuccess)

\* C10 witness: the process has exited on the error of its third launch.
C10_Witness ==
  /\ pc = "exited"
  /\ Len(launches) = 3
  /\ launches[3].err # cudaSuccess
  /\ MsgCudaError \in log_
  /\ cur_batch_idx_ = 2

\* C11: a compute() call that receives no burst logs it and returns: the
\* active slot, the pending count, the pointer tables, both totals and the
\* launches are as before, the operator is ready for the next call, and
\* batch_q_ is what free_batch_queue() makes of it.
C11_NoBurstSkipped ==
  [][ (step'.op = "no_burst")
      => ( /\ UNCHANGED << cur_batch_idx_, aggr_pkts_recv_, h_dev_ptrs_,
                           ttl_pkts_recv_, ttl_bytes_recv_, launches,
                           cur_batch_, events_, batch_size_, burst, pkt_idx >>
           /\ pc = "idle" /\ pc' = "idle"
           /\ MsgNoBurst \in log_'
           /\ batch_q_' = free_batch_queue(batch_q_, events_) ) ]_vars

\* C11 witness: a call without a burst came while one pointer of a batch of
\* two was pending and a batch was in flight.
C11_Witness ==
  /\ step.op = "no_burst"
  /\ batch_size_ = 2
  /\ aggr_pkts_recv_ = 1
  /\ Len(launches) = 1
  /\ Len(batch_q_) = 1

\* The number of batches at the head of q whose events are all complete.
DonePrefix(q, ev) ==
  CHOOSE k \in 0 .. Len(q) :
    /\ \A i \in 1 .. k : ev[q[i].evt] = cudaSuccess
    /\ k < Len(q) => ev[q[k + 1].evt] # cudaSuccess

\* C12: every step that reclaims without launching removes exactly the
\* longest prefix of batch_q_ whose events are all complete; a batch behind
\* one whose event is not complete stays, whatever its own event says.
C12_ReclaimLongestDonePrefix ==
  [][ (step'.op \in {"no_burst", "ignored", "data", "fell_behind"})
      => batch_q_' = SubSeq(batch_q_, DonePrefix(batch_q_, events_) + 1,
                            Len(batch_q_)) ]_vars

\* C12 witness: a reclaim left three batches in batch_q_ because the head's
\* event is not complete, although the events of the two behind it are.
C12_Witness ==
  /\ step.op = "ignored"
  /\ Len(batch_q_) = 3
  /\ events_[batch_q_[1].evt] = cudaErrorNotReady
  /\ events_[batch_q_[2].evt] = cudaSuccess
  /\ events_[batch_q_[3].evt] = cudaSuccess

\* C13 as stated: every launch has recorded the slot's event on the slot's
\* stream between the kernel launch and the push onto batch_q_, and has not
\* waited for it.
C13_EventRecordedWithoutWait ==
  \A k \in 1 .. Len(launches) :
    launches[k].recorded /\ ~ launches[k].waited

C15_LaunchOnNextPacket ==
  /\ [][ (launches' # launches)
         => ( /\ pc = "loop"
              /\ pkt_idx < burst.num_pkts
              /\ aggr_pkts_recv_ = batch_size_
              /\ Len(launches') = Len(launches) + 1
              /\ launches'[Len(launches')].slot = cur_batch_idx_
              /\ launches'[Len(launches')].table = h_dev_ptrs_[cur_batch_idx_]
              /\ \A j \in DOMAIN h_dev_ptrs_[cur_batch_idx_] :
                   h_dev_ptrs_[cur_batch_idx_][j]
                     # ArrivalPtr(burst.first + pkt_idx)
              /\ pc' # "exited"
                   => ( /\ cur_batch_idx_'
                             = (cur_batch_idx_ + 1) % num_concurrent
                        /\ h_dev_ptrs_'[cur_batch_idx_'][0]
                             = ArrivalPtr(burst.first + pkt_idx)
                        /\ aggr_pkts_recv_' = 1
                        /\ pkt_idx' = pkt_idx + 1 ) ) ]_vars
  /\ [][ (step'.op \in {"store", "data", "return", "ignored", "no_burst"})
         => launches' = launches ]_vars

\* C15 witness: a burst whose last packet filled the table has returned and
\* the full table is still not launched.
C15_Witness ==
  /\ step.op = "return"
  /\ batch_size_ = 2
  /\ aggr_pkts_recv_ = batch_size_
  /\ ttl_pkts_recv_ = 4
  /\ Len(launches) = 1

\* C16: saturation is reported only by a step that leaves batch_q_ with
\* num_concurrent batches, the event of the head not complete, and that is
\* batch_q_ after the removal of its complete prefix.
C16_SaturationOnlyAfterReclaim ==
  /\ [][ (MsgFellBehind \in log_' /\ step'.op = "fell_behind")
         => ( /\ Len(batch_q_') = num_concurrent
              /\ events_'[Head(batch_q_').evt] # cudaSuccess
              /\ batch_q_' = SubSeq(batch_q_,
                                    DonePrefix(batch_q_, events_) + 1,
                                    Len(batch_q_)) ) ]_vars
  /\ [][ (MsgFellBehind \in log_' /\ MsgFellBehind \notin log_)
         => step'.op = "fell_behind" ]_vars

\* C16 witness: saturation reported after an event had completed and its
\* batch had been reclaimed to make room for a fifth launch: the head is
\* now the batch of slot 1 and its event is not complete.
C16_Witness ==
  /\ step.op = "fell_behind"
  /\ Len(launches) = num_concurrent + 1
  /\ Len(batch_q_) = num_concurrent
  /\ Head(batch_q_).evt = 1
  /\ events_[1] = cudaErrorNotReady

\* The pending pointers of the active slot.
PendingPtrs ==
  { h_dev_ptrs_[cur_batch_idx_][j] :
      j \in { i \in DOMAIN h_dev_ptrs_[cur_batch_idx_] :
                i < aggr_pkts_recv_ } }

\* The launches whose table holds pointer p.
LaunchesWith(p) ==
  { k \in 1 .. Len(launches) :
      \E j \in DOMAIN launches[k].table : launches[k].table[j] = p }

\* C17 as stated: between compute() calls, the payload pointer of every
\* packet counted in ttl_pkts_recv_ is in the table of exactly one launched
\* batch or among the pending pointers of the active slot, and not both.
C17_NoPointerDropped ==
  pc = "idle" =>
    \A k \in 1 .. ttl_pkts_recv_ :
      \/ /\ Cardinality(LaunchesWith(ArrivalPtr(k))) = 1
         /\ ArrivalPtr(k) \notin PendingPtrs
      \/ /\ LaunchesWith(ArrivalPtr(k)) = {}
         /\ ArrivalPtr(k) \in PendingPtrs

\* The number of launches whose batch has left batch_q_.
Reclaimed == Len(launches) - Len(batch_q_)

\* C18: with compute() called again and again and every event completing
\* in the end, the oldest batch of a non-empty batch_q_ is removed by a later
\* free_batch_queue() (so, batch_q_ being a FIFO, every batch pushed onto it
\* is removed), and a full batch_q_ gets below num_concurrent again, unless
\* the process exits on a device error.
C18_EveryBatchReclaimed ==
  /\ (batch_q_ # << >>) ~> (step.freed \/ pc = "exited")
  /\ (Len(batch_q_) = num_concurrent)
       ~> (Len(batch_q_) < num_concurrent \/ pc = "exited")

\* C18 witness: four batches were in flight and all of them have been
\* reclaimed, the last event having completed after the others.
C18_Witness ==
  /\ Len(launches) = num_concurrent
  /\ batch_q_ = << >>
  /\ step.op = "no_burst"
  /\ step.freed
  /\ Saturated

\* C19 as stated: every table holds entries at indices 0 .. batch_size_-1
\* only, and the pending count is within 0 .. batch_size_.
C19_WritesWithinTable ==
  /\ \A n \in Slots : DOMAIN h_dev_ptrs_[n] \subseteq 0 .. (batch_size_ - 1)
  /\ aggr_pkts_recv_ \in 0 .. batch_size_

\* C20 as stated: between compute() calls the two totals account for the
\* same bursts; every burst of n packets carries n * max_packet_size_ bytes
\* here, so the byte total is max_packet_size_ times the packet total.
C20_TotalsAccountSameBursts ==
  pc = "idle" => ttl_bytes_recv_ = ttl_pkts_recv_ * max_packet_size_

====
